---- MODULE Spec2Model ----
(***************************************************************************)
(* bohrenMKIV.py: locate a removable volume, collect the files under the   *)
(* home directory whose suffix is in the allowlist, and archive them on    *)
(* the volume with the 7z command line (tier 1) or, failing that, with the *)
(* py7zr library (tier 2), installing the library on demand.               *)
(*                                                                         *)
(* Text is modelled as sequences of one-character strings, a path as the   *)
(* sequence of its components.                                             *)
(***************************************************************************)
EXTENDS Integers, Sequences, FiniteSets, TLC

VARIABLES
    pc,             \* position of the single thread of control
    platform,       \* what platform.system(), the drive table and the mount roots answer
    tree,           \* the files under the home directory
    importable,     \* whether "import py7zr" succeeds in this interpreter
    externalDrive,  \* main: result of findDrive
    matching1,      \* cliMethod: matchingFiles
    matching2,      \* py7zrMethod: matchingFiles
    written,        \* py7zrMethod: number of archive.write calls that have returned
    via,            \* installPy7zr: the call site of the running tryPipInstall
    tmpFile,        \* installPy7zr: the get-pip temporary file on disk
    installRet,     \* what installPy7zr returned
    tier1,          \* what cliMethod did
    tier2,          \* what py7zrMethod did
    outcome,        \* how main ended
    archive,        \* the file at <destination>/<username>Backup.7z
    exit7z,         \* how the 7z process ended
    entry2,         \* the archive file and the library as py7zrMethod found them
    forms,          \* tryPipInstall: how each install command run so far ended
    calls           \* the operations invoked so far, in order

vars == <<pc, platform, tree, importable, externalDrive, matching1, matching2,
          written, via, tmpFile, installRet, tier1, tier2, outcome, archive, exit7z, entry2, forms,
          calls>>

----------------------------------------------------------------------------
(* Bounds of the model *)

MaxFiles == 3          \* files under the home directory (pipeline runs)
MaxNested == 1         \* files below the top directory (collection runs)
MaxEntries == 2        \* children listed under one mount root (locator runs)

----------------------------------------------------------------------------
(* Text *)

UpperChars == <<"A","B","C","D","E","F","G","H","I","J","K","L","M",
                "N","O","P","Q","R","S","T","U","V","W","X","Y","Z">>
LowerChars == <<"a","b","c","d","e","f","g","h","i","j","k","l","m",
                "n","o","p","q","r","s","t","u","v","w","x","y","z">>

\* str.lower, one character
lowerChar(c) ==
    IF \E i \in DOMAIN UpperChars : UpperChars[i] = c
    THEN LowerChars[CHOOSE i \in DOMAIN UpperChars : UpperChars[i] = c]
    ELSE c

\* str.upper, one character
upperChar(c) ==
    IF \E i \in DOMAIN LowerChars : LowerChars[i] = c
    THEN UpperChars[CHOOSE i \in DOMAIN LowerChars : LowerChars[i] = c]
    ELSE c

\* str.lower
lower(s) == [i \in 1..Len(s) |-> lowerChar(s[i])]

\* str.rfind("."), 0-based, -1 when there is no dot
rfindDot(s) ==
    IF \E i \in 1..Len(s) : s[i] = "."
    THEN (CHOOSE i \in 1..Len(s) :
              /\ s[i] = "."
              /\ \A j \in (i+1)..Len(s) : s[j] # ".") - 1
    ELSE -1

\* pathlib.PurePath.suffix of a bare file name: the text from the last dot,
\* empty when the only dot leads the name or when the name ends in the dot
suffix(name) ==
    LET i == rfindDot(name)
    IN  IF 0 < i /\ i < Len(name) - 1 THEN SubSeq(name, i + 1, Len(name)) ELSE <<>>

\* the allowlist
extensions ==
    { <<".","p","d","f">>, <<".","d","o","c","x">>, <<".","t","x","t">>,
      <<".","x","l","s">>, <<".","x","l","s","x">>, <<".","p","p","t">>,
      <<".","p","p","t","x">>, <<".","j","p","e","g">>, <<".","j","p","g">>,
      <<".","p","n","g">>, <<".","p","y">>, <<".","p","y","w">>,
      <<".","c","p","p">>, <<".","e","p","u","b">>, <<".","z","i","p">>,
      <<".","7","z">>, <<".","b","a","t">>, <<".","w","a","v">>,
      <<".","m","p","3">>, <<".","m","p","4">>, <<".","m","d">>,
      <<".","s","h">>, <<".","e","x","e">>, <<".","w","e","b","p">>,
      <<".","l","o","g">>, <<".","y","a","m","l">>, <<".","h","e","x">>,
      <<".","r","b">>, <<".","c">>, <<".","c","s">>,
      <<".","h","t","m","l">>, <<".","j","s">>, <<".","c","s","s">>,
      <<".","l","u","a">>, <<".","c","s","v">>, <<".","x","m","l">>,
      <<".","r","s">>, <<".","p","y","c">>, <<".","k","e","y">>,
      <<".","j","a","v","a">>, <<".","j","a","r">>, <<".","i","n","i">>,
      <<".","d","l","l">>, <<".","e","n","c">>, <<".","d","b">>,
      <<".","s","q","l">>, <<".","o">>, <<".","o","u","t">>,
      <<".","s","t","l">>, <<".","o","b","j">> }

\* a filter that forgets to lower-case the suffix
matchesCaseSensitive(file, exts) == suffix(file) \in exts

\* the filter of collectMatchingFiles
matches(file, exts) == lower(suffix(file)) \in exts

----------------------------------------------------------------------------
(* Paths *)

username == <<"u">>
homeDirectory == << <<"h","o","m","e">>, <<"u">> >>

\* os.path.join(root, file)
join(root, file) == Append(root, file)

\* length of the longest common prefix of two paths
RECURSIVE commonLen(_, _)
commonLen(p, q) ==
    IF p = <<>> \/ q = <<>> \/ Head(p) # Head(q) THEN 0
    ELSE 1 + commonLen(Tail(p), Tail(q))

\* a relpath taken from the parent of start
relpathFromParent(path, start) == SubSeq(path, Len(start), Len(path))

\* os.path.relpath(path, start): one ".." per component of start below the
\* common prefix, then the rest of path
relpath(path, start) ==
    LET c == commonLen(path, start)
    IN  [i \in 1..(Len(start) - c) |-> <<".", ".">>] \o SubSeq(path, c + 1, Len(path))

\* <root>/<username>Backup.7z
archiveName(destination, user) ==
    join(destination, user \o <<"B","a","c","k","u","p",".","7","z">>)

----------------------------------------------------------------------------
(* FileCollector *)

\* some enumeration of a finite set (os.listdir fixes no order)
RECURSIVE SetToSeq(_)
SetToSeq(S) ==
    IF S = {} THEN <<>>
    ELSE LET x == CHOOSE y \in S : TRUE IN <<x>> \o SetToSeq(S \ {x})

RECURSIVE Flatten(_)
Flatten(ss) == IF ss = <<>> THEN <<>> ELSE Head(ss) \o Flatten(Tail(ss))

IsPrefix(p, q) == Len(p) <= Len(q) /\ SubSeq(q, 1, Len(p)) = p

\* os.walk's followlinks argument, left at its default
followlinks == FALSE

\* the names found in the directory a directory symlink points to
OutsideNames == { <<"s","e","c","r","e","t",".","t","x","t">> }

\* os.walk(source), top down: the non-directories of directory d (regular
\* files and symlinks to files), then each subdirectory; a symlink to a
\* directory is listed among the subdirectories and entered only with followlinks
RECURSIVE walk(_, _)
walk(t, d) ==
    LET files == SetToSeq({f.name : f \in {g \in t : g.dir = d /\ g.link # "dir"}})
        dirs  == SetToSeq({SubSeq(f.dir, 1, Len(d) + 1) :
                              f \in {g \in t : Len(g.dir) > Len(d) /\ IsPrefix(d, g.dir)}})
        links == SetToSeq({Append(d, f.name) : f \in {g \in t : g.dir = d /\ g.link = "dir"}})
        inside == SetToSeq(OutsideNames)
    IN  [i \in 1..Len(files) |-> [root |-> d, file |-> files[i]]]
        \o Flatten([i \in 1..Len(dirs) |-> walk(t, dirs[i])])
        \o Flatten([i \in 1..Len(links) |->
               IF followlinks
               THEN [k \in 1..Len(inside) |-> [root |-> links[i], file |-> inside[k]]]
               ELSE <<>>])

\* the pairs (absPath, relPath) the generator yields, in order
collectMatchingFiles(t, source, exts) ==
    LET found == SelectSeq(walk(t, <<>>), LAMBDA e : matches(e.file, exts))
    IN  [i \in 1..Len(found) |->
            LET absPath == join(source \o found[i].root, found[i].file)
            IN  <<absPath, relpath(absPath, source)>>]

----------------------------------------------------------------------------
(* VolumeLocator *)

None == <<>>            \* no drive: the falsy result of findDrive
DRIVE_REMOVABLE == 2    \* GetDriveTypeW's answer for removable media
DRIVE_FIXED == 3

\* the candidate mount roots, in the order findDrive scans them
mountPoints ==
    << << <<"m","e","d","i","a">>, username >>,
       << <<"r","u","n">>, <<"m","e","d","i","a">>, username >>,
       << <<"V","o","l","u","m","e","s">>, username >> >>

\* f"{letter}:\\"
driveOf(letter) == << <<letter, ":", "\\">> >>

\* the Windows branch: one bit of the mask per letter, removable drives kept
windowsDrives(bitmask, driveType) ==
    LET present == SelectSeq([i \in 1..Len(UpperChars) |-> i],
                             LAMBDA i : (bitmask \div (2 ^ (i - 1))) % 2 = 1
                                        /\ driveType[i] = DRIVE_REMOVABLE)
    IN  [k \in 1..Len(present) |-> driveOf(UpperChars[present[k]])]

\* a mount-point branch that keeps every child, mounted or not
mountDrivesAll(roots) ==
    Flatten([r \in 1..Len(mountPoints) |->
        IF roots[r].exists
        THEN [k \in 1..Len(roots[r].entries) |->
                 join(mountPoints[r], roots[r].entries[k].name)]
        ELSE <<>>])

\* the other branch: the children of each existing root that are mount points
mountDrives(roots) ==
    Flatten([r \in 1..Len(mountPoints) |->
        IF roots[r].exists
        THEN LET kept == SelectSeq(roots[r].entries, LAMBDA e : e.ismount)
             IN  [k \in 1..Len(kept) |-> join(mountPoints[r], kept[k].name)]
        ELSE <<>>])

\* the first drive found, or None
findDrive(p) ==
    LET drives == IF p.system = "Windows"
                  THEN windowsDrives(p.bitmask, p.driveType)
                  ELSE mountDrives(p.roots)
    IN  IF drives = <<>> THEN None ELSE drives[1]

----------------------------------------------------------------------------
(* The worlds a run starts in *)

RECURSIVE SubsetsUpTo(_, _)
SubsetsUpTo(P, k) ==
    IF k = 0 THEN {{}}
    ELSE LET prev == SubsetsUpTo(P, k - 1)
         IN  prev \cup {s \cup {f} : s \in prev, f \in P}

\* a regular file, a symlink to a file outside the source root, a symlink to a
\* directory outside the source root
File(d, n) == [dir |-> d, name |-> n, link |-> "none"]
FileLink(d, n) == [dir |-> d, name |-> n, link |-> "file"]
DirLink(d, n) == [dir |-> d, name |-> n, link |-> "dir"]

docs == <<"d","o","c","s">>
old  == <<"o","l","d">>

FilePool ==
    { File(<<>>, <<"r","e","p","o","r","t",".","p","d","f">>),
      File(<<>>, <<"n","o","t","e","s",".","t","x","t">>),
      File(<<>>, <<"i","m","a","g","e",".","p","n","g",".","b","a","k">>),
      File(<<>>, <<"M","a","k","e","f","i","l","e">>),
      File(<<docs>>, <<"a",".","P","D","F">>),
      File(<<docs, old>>, <<"n","o","t","e","s",".","t","x","t">>) }

Trees == SubsetsUpTo(FilePool, MaxFiles)

NoRoot == [exists |-> FALSE, entries |-> <<>>]
Root(es) == [exists |-> TRUE, entries |-> es]
Entry(n, m) == [name |-> n, ismount |-> m]
vol1 == <<"v","o","l","1">>
vol2 == <<"v","o","l","2">>

NoDriveTypes == [i \in 1..Len(UpperChars) |-> DRIVE_FIXED]
Linux(roots) == [system |-> "Linux", bitmask |-> 0, driveType |-> NoDriveTypes, roots |-> roots]
Windows(mask, types) ==
    [system |-> "Windows", bitmask |-> mask, driveType |-> types,
     roots |-> <<NoRoot, NoRoot, NoRoot>>]

\* the platforms the pipeline runs start on
MainPlatforms ==
    { Linux(<<NoRoot, NoRoot, NoRoot>>),
      Linux(<<Root(<<Entry(vol1, FALSE)>>), NoRoot, NoRoot>>),
      Linux(<<Root(<<Entry(vol1, FALSE), Entry(vol2, TRUE)>>), NoRoot, NoRoot>>),
      Linux(<<NoRoot, Root(<<Entry(vol1, TRUE)>>), Root(<<Entry(vol2, TRUE)>>)>>),
      Windows(4, NoDriveTypes),
      Windows(28, [NoDriveTypes EXCEPT ![4] = DRIVE_REMOVABLE, ![5] = DRIVE_REMOVABLE]) }

NoFile == [exists |-> FALSE, by |-> "none", complete |-> FALSE, entries |-> {}]
OldArchive ==
    [exists |-> TRUE, by |-> "other", complete |-> TRUE,
     entries |-> { << <<"o","l","d",".","t","x","t">> >> }]

\* before py7zrMethod is entered nothing has been found
NotEntered == [entered |-> FALSE, archive |-> NoFile, importable |-> FALSE]

----------------------------------------------------------------------------
(* State *)

Init ==
    /\ pc = "main"
    /\ platform \in MainPlatforms
    /\ tree \in Trees
    /\ importable \in BOOLEAN
    /\ externalDrive = None
    /\ matching1 = <<>>
    /\ matching2 = <<>>
    /\ written = 0
    /\ via = "none"
    /\ tmpFile = "none"
    /\ installRet = "unset"
    /\ tier1 = "notcalled"
    /\ tier2 = "notcalled"
    /\ outcome = "running"
    /\ archive \in (IF findDrive(platform) = None THEN {NoFile} ELSE {NoFile, OldArchive})
    /\ exit7z = "none"
    /\ entry2 = NotEntered
    /\ forms = <<>>
    /\ calls = <<>>

Called(e) == \E i \in 1..Len(calls) : calls[i] = e
Count(e) == Cardinality({i \in 1..Len(calls) : calls[i] = e})
Before(e, f) == \A j \in 1..Len(calls) : calls[j] = f => \E i \in 1..(j - 1) : calls[i] = e

absPaths(matchingFiles) == {matchingFiles[i][1] : i \in 1..Len(matchingFiles)}
relPaths(matchingFiles) == {matchingFiles[i][2] : i \in 1..Len(matchingFiles)}

----------------------------------------------------------------------------
(* Orchestrator and tier 1 *)

\* a main that goes on to tier 1 without a drive
FindDriveNoGuard ==
    /\ pc = "main"
    /\ UNCHANGED entry2
    /\ UNCHANGED forms
    /\ externalDrive' = findDrive(platform)
    /\ calls' = Append(calls, "findDrive")
    /\ pc' = "cli_collect"
    /\ UNCHANGED <<platform, tree, importable, matching1, matching2, written, via,
                   tmpFile, installRet, tier1, tier2, outcome, archive, exit7z>>

\* main: externalDrive = findDrive(username); stop when there is none
FindDrive ==
    /\ pc = "main"
    /\ UNCHANGED entry2
    /\ UNCHANGED forms
    /\ externalDrive' = findDrive(platform)
    /\ calls' = Append(calls, "findDrive")
    /\ IF externalDrive' = None
       THEN pc' = "done" /\ outcome' = "aborted"
       ELSE pc' = "cli_collect" /\ outcome' = outcome
    /\ UNCHANGED <<platform, tree, importable, matching1, matching2, written, via,
                   tmpFile, installRet, tier1, tier2, archive, exit7z>>

\* cliMethod: collect the files; return False when there are none
CliCollect ==
    /\ pc = "cli_collect"
    /\ UNCHANGED entry2
    /\ UNCHANGED forms
    /\ matching1' = collectMatchingFiles(tree, homeDirectory, extensions)
    /\ calls' = calls \o <<"cliMethod", "collect1">>
    /\ IF matching1' = <<>>
       THEN tier1' = "false" /\ pc' = "py_import"
       ELSE tier1' = "running" /\ pc' = "cli_run"
    /\ UNCHANGED <<platform, tree, importable, externalDrive, matching2, written, via,
                   tmpFile, installRet, tier2, outcome, archive, exit7z>>

\* the results of running the external 7z program
Results7z == {"ok", "absent", "nonzero", "oserror"}

\* what "7z a archiveName paths -mx=5" leaves at archiveName: on a clean exit
\* the given files added to the archive, on a non-zero exit the file as it was
\* or a partial one, nothing when the program could not be started
run7z(result, arch, paths) ==
    CASE result = "ok" ->
            { [exists |-> TRUE, by |-> "7z", complete |-> TRUE,
               entries |-> (IF arch.complete THEN arch.entries ELSE {}) \cup paths] }
      [] result = "nonzero" ->
            { arch, [exists |-> TRUE, by |-> "7z", complete |-> FALSE, entries |-> {}] }
      [] OTHER -> { arch }

\* a main that falls through to tier 2 after tier 1 succeeded
CliRunFallsThrough ==
    /\ pc = "cli_run"
    /\ UNCHANGED entry2
    /\ UNCHANGED forms
    /\ \E result \in Results7z :
        /\ archive' \in run7z(result, archive, absPaths(matching1))
        /\ exit7z' = result
        /\ calls' = Append(calls, "7z")
        /\ CASE result = "ok" -> tier1' = "true" /\ outcome' = outcome /\ pc' = "py_import"
             [] result \in {"absent", "nonzero"} ->
                    tier1' = "false" /\ outcome' = outcome /\ pc' = "py_import"
             [] OTHER -> tier1' = "raised" /\ outcome' = "fault" /\ pc' = "done"
    /\ UNCHANGED <<platform, tree, importable, externalDrive, matching1, matching2,
                   written, via, tmpFile, installRet, tier2>>

\* a cliMethod that does not catch FileNotFoundError
CliRunAbsentRaises ==
    /\ pc = "cli_run"
    /\ UNCHANGED entry2
    /\ UNCHANGED forms
    /\ \E result \in Results7z :
        /\ archive' \in run7z(result, archive, absPaths(matching1))
        /\ exit7z' = result
        /\ calls' = Append(calls, "7z")
        /\ CASE result = "ok" -> tier1' = "true" /\ outcome' = "tier1" /\ pc' = "done"
             [] result = "nonzero" ->
                    tier1' = "false" /\ outcome' = outcome /\ pc' = "py_import"
             [] OTHER -> tier1' = "raised" /\ outcome' = "fault" /\ pc' = "done"
    /\ UNCHANGED <<platform, tree, importable, externalDrive, matching1, matching2,
                   written, via, tmpFile, installRet, tier2>>

\* cliMethod: subprocess.run(["7z", "a", ...], check=True); FileNotFoundError and
\* CalledProcessError give False, any other error propagates out of main
CliRun ==
    /\ pc = "cli_run"
    /\ UNCHANGED entry2
    /\ UNCHANGED forms
    /\ \E result \in Results7z :
        /\ archive' \in run7z(result, archive, absPaths(matching1))
        /\ exit7z' = result
        /\ calls' = Append(calls, "7z")
        /\ CASE result = "ok" -> tier1' = "true" /\ outcome' = "tier1" /\ pc' = "done"
             [] result \in {"absent", "nonzero"} ->
                    tier1' = "false" /\ outcome' = outcome /\ pc' = "py_import"
             [] OTHER -> tier1' = "raised" /\ outcome' = "fault" /\ pc' = "done"
    /\ UNCHANGED <<platform, tree, importable, externalDrive, matching1, matching2,
                   written, via, tmpFile, installRet, tier2>>

----------------------------------------------------------------------------
(* DependencyInstaller *)

\* a cleanup that leaves the downloaded script behind
removeTmpNever(t) == t

\* installPy7zr, finally: os.remove(tmpFile.name) when the file exists
removeTmp(t) == IF t = "exists" THEN "removed" ELSE t

\* installPy7zr returns r to py7zrMethod, which returns False to main on a
\* false r and goes on to "import py7zr" on a true one
InstallReturns(r) ==
    /\ installRet' = r
    /\ IF r = "true"
       THEN pc' = "py_reimport" /\ UNCHANGED <<tier2, outcome>>
       ELSE pc' = "done" /\ tier2' = "false" /\ outcome' = "failed"

\* installPy7zr: subprocess.run([sys.executable, "-m", "pip", "--version"])
PipCheck ==
    /\ pc = "pip_check"
    /\ UNCHANGED entry2
    /\ UNCHANGED forms
    /\ calls' = Append(calls, "pip --version")
    /\ \E ok \in BOOLEAN :
        IF ok THEN via' = "pip" /\ pc' = "pip_form1"
              ELSE via' = via /\ pc' = "ensurepip"
    /\ UNCHANGED <<platform, tree, importable, externalDrive, matching1, matching2,
                   written, tmpFile, installRet, tier1, tier2, outcome, archive, exit7z>>

\* how one install command can end: exit status 0, a non-zero exit status
\* (CalledProcessError), or the command could not be started (FileNotFoundError)
ResultsPip == {"ok", "nonzero", "raised"}

\* a tryPipInstall that gives up after its first command
PipForm1GivesUp ==
    /\ pc = "pip_form1"
    /\ UNCHANGED entry2
    /\ calls' = Append(calls, "pip install 1")
    /\ \E result \in ResultsPip :
        /\ forms' = Append(forms, result)
        /\ importable' \in (IF result = "ok" THEN BOOLEAN ELSE {importable})
        /\ tmpFile' = (IF via = "getpip" THEN removeTmp(tmpFile) ELSE tmpFile)
        /\ InstallReturns(IF result = "ok" THEN "true" ELSE "false")
    /\ UNCHANGED <<platform, tree, externalDrive, matching1, matching2, written, via,
                   tier1, archive, exit7z>>

\* tryPipInstall, first command: [sys.executable, "-m", "pip", "install", "py7zr"];
\* a clean exit returns True through the call site, its finally clause included;
\* any exception is caught and the loop goes on to the second command
PipForm1 ==
    /\ pc = "pip_form1"
    /\ UNCHANGED entry2
    /\ calls' = Append(calls, "pip install 1")
    /\ \E result \in ResultsPip :
        /\ forms' = Append(forms, result)
        /\ IF result = "ok"
           THEN /\ importable' \in BOOLEAN
                /\ tmpFile' = (IF via = "getpip" THEN removeTmp(tmpFile) ELSE tmpFile)
                /\ InstallReturns("true")
           ELSE /\ pc' = "pip_form2"
                /\ UNCHANGED <<importable, tmpFile, installRet, tier2, outcome>>
    /\ UNCHANGED <<platform, tree, externalDrive, matching1, matching2, written, via,
                   tier1, archive, exit7z>>

\* a tryPipInstall that goes on to bootstrap pip when pip was present and both
\* commands failed
PipForm2Rebootstraps ==
    /\ pc = "pip_form2"
    /\ UNCHANGED entry2
    /\ calls' = Append(calls, "pip install 2")
    /\ \E result \in ResultsPip :
        /\ forms' = Append(forms, result)
        /\ importable' \in (IF result = "ok" THEN BOOLEAN ELSE {importable})
        /\ IF result # "ok" /\ via = "pip"
           THEN /\ pc' = "ensurepip"
                /\ UNCHANGED <<tmpFile, installRet, tier2, outcome>>
           ELSE /\ tmpFile' = (IF via = "getpip" THEN removeTmp(tmpFile) ELSE tmpFile)
                /\ InstallReturns(IF result = "ok" THEN "true" ELSE "false")
    /\ UNCHANGED <<platform, tree, externalDrive, matching1, matching2, written, via,
                   tier1, archive, exit7z>>

\* tryPipInstall, second command: ["pip", "install", "py7zr"]; when it fails too
\* tryPipInstall returns False
PipForm2 ==
    /\ pc = "pip_form2"
    /\ UNCHANGED entry2
    /\ calls' = Append(calls, "pip install 2")
    /\ \E result \in ResultsPip :
        /\ forms' = Append(forms, result)
        /\ importable' \in (IF result = "ok" THEN BOOLEAN ELSE {importable})
        /\ tmpFile' = (IF via = "getpip" THEN removeTmp(tmpFile) ELSE tmpFile)
        /\ InstallReturns(IF result = "ok" THEN "true" ELSE "false")
    /\ UNCHANGED <<platform, tree, externalDrive, matching1, matching2, written, via,
                   tier1, archive, exit7z>>

\* an installPy7zr that downloads get-pip even after ensurepip succeeded
EnsurepipThenDownloads ==
    /\ pc = "ensurepip"
    /\ UNCHANGED entry2
    /\ UNCHANGED forms
    /\ calls' = Append(calls, "ensurepip")
    /\ \E ok \in BOOLEAN :
        /\ via' = (IF ok THEN "ensurepip" ELSE via)
        /\ pc' = "getpip_tmp"
    /\ UNCHANGED <<platform, tree, importable, externalDrive, matching1, matching2,
                   written, tmpFile, installRet, tier1, tier2, outcome, archive, exit7z>>

\* installPy7zr: import ensurepip; ensurepip.bootstrap(); any exception goes on
\* to the download
Ensurepip ==
    /\ pc = "ensurepip"
    /\ UNCHANGED entry2
    /\ UNCHANGED forms
    /\ calls' = Append(calls, "ensurepip")
    /\ \E ok \in BOOLEAN :
        IF ok THEN via' = "ensurepip" /\ pc' = "pip_form1"
              ELSE via' = via /\ pc' = "getpip_tmp"
    /\ UNCHANGED <<platform, tree, importable, externalDrive, matching1, matching2,
                   written, tmpFile, installRet, tier1, tier2, outcome, archive, exit7z>>

\* installPy7zr: tempfile.NamedTemporaryFile(delete=False, suffix=".py")
MkTemp ==
    /\ pc = "getpip_tmp"
    /\ UNCHANGED entry2
    /\ UNCHANGED forms
    /\ calls' = Append(calls, "mktemp")
    /\ \E ok \in BOOLEAN :
        IF ok
        THEN /\ tmpFile' = "exists"
             /\ pc' = "getpip_download"
             /\ UNCHANGED <<installRet, tier2, outcome>>
        ELSE /\ tmpFile' = tmpFile
             /\ InstallReturns("false")
    /\ UNCHANGED <<platform, tree, importable, externalDrive, matching1, matching2,
                   written, via, tier1, archive, exit7z>>

\* installPy7zr: urllib.request.urlretrieve(url, tmpFile.name)
Download ==
    /\ pc = "getpip_download"
    /\ UNCHANGED entry2
    /\ UNCHANGED forms
    /\ calls' = Append(calls, "urlretrieve")
    /\ \E ok \in BOOLEAN :
        IF ok
        THEN /\ pc' = "getpip_run"
             /\ UNCHANGED <<tmpFile, installRet, tier2, outcome>>
        ELSE /\ tmpFile' = removeTmp(tmpFile)
             /\ InstallReturns("false")
    /\ UNCHANGED <<platform, tree, importable, externalDrive, matching1, matching2,
                   written, via, tier1, archive, exit7z>>

\* installPy7zr: subprocess.run([sys.executable, tmpFile.name], check=True)
RunGetPip ==
    /\ pc = "getpip_run"
    /\ UNCHANGED entry2
    /\ UNCHANGED forms
    /\ calls' = Append(calls, "get-pip")
    /\ \E ok \in BOOLEAN :
        IF ok
        THEN /\ via' = "getpip"
             /\ pc' = "pip_form1"
             /\ UNCHANGED <<tmpFile, installRet, tier2, outcome>>
        ELSE /\ via' = via
             /\ tmpFile' = removeTmp(tmpFile)
             /\ InstallReturns("false")
    /\ UNCHANGED <<platform, tree, importable, externalDrive, matching1, matching2,
                   written, tier1, archive, exit7z>>

----------------------------------------------------------------------------
(* Tier 2 *)

\* a py7zrMethod that installs without trying the import first
Py7zrImportAlwaysInstalls ==
    /\ pc = "py_import"
    /\ entry2' = [entered |-> TRUE, archive |-> archive, importable |-> importable]
    /\ UNCHANGED forms
    /\ tier2' = "running"
    /\ calls' = calls \o <<"py7zrMethod", "import", "installPy7zr">>
    /\ pc' = "pip_check"
    /\ UNCHANGED <<platform, tree, importable, externalDrive, matching1, matching2,
                   written, via, tmpFile, installRet, tier1, outcome, archive, exit7z>>

\* a py7zrMethod that collects the files before it looks for the library
Py7zrImportCollectsFirst ==
    /\ pc = "py_import"
    /\ entry2' = [entered |-> TRUE, archive |-> archive, importable |-> importable]
    /\ UNCHANGED forms
    /\ matching2' = collectMatchingFiles(tree, homeDirectory, extensions)
    /\ IF matching2' = <<>>
       THEN /\ calls' = calls \o <<"py7zrMethod", "collect2">>
            /\ pc' = "done" /\ tier2' = "false" /\ outcome' = "failed"
       ELSE /\ tier2' = "running" /\ outcome' = outcome
            /\ IF importable
               THEN calls' = calls \o <<"py7zrMethod", "collect2", "import">>
                    /\ pc' = "py_open"
               ELSE calls' = calls \o <<"py7zrMethod", "collect2", "import", "installPy7zr">>
                    /\ pc' = "pip_check"
    /\ UNCHANGED <<platform, tree, importable, externalDrive, matching1,
                   written, via, tmpFile, installRet, tier1, archive, exit7z>>

\* py7zrMethod: import py7zr; on ImportError enter installPy7zr
Py7zrImport ==
    /\ pc = "py_import"
    /\ entry2' = [entered |-> TRUE, archive |-> archive, importable |-> importable]
    /\ UNCHANGED forms
    /\ tier2' = "running"
    /\ IF importable
       THEN calls' = calls \o <<"py7zrMethod", "import">> /\ pc' = "py_collect"
       ELSE calls' = calls \o <<"py7zrMethod", "import", "installPy7zr">>
            /\ pc' = "pip_check"
    /\ UNCHANGED <<platform, tree, importable, externalDrive, matching1, matching2,
                   written, via, tmpFile, installRet, tier1, outcome, archive, exit7z>>

\* py7zrMethod: the second "import py7zr", outside any try: an ImportError
\* leaves py7zrMethod and main
Reimport ==
    /\ pc = "py_reimport"
    /\ UNCHANGED entry2
    /\ UNCHANGED forms
    /\ calls' = Append(calls, "reimport")
    /\ IF importable
       THEN pc' = "py_collect" /\ UNCHANGED <<tier2, outcome>>
       ELSE pc' = "done" /\ tier2' = "raised" /\ outcome' = "fault"
    /\ UNCHANGED <<platform, tree, importable, externalDrive, matching1, matching2,
                   written, via, tmpFile, installRet, tier1, archive, exit7z>>

\* a py7zrMethod that opens the archive even with nothing to archive
Py7zrCollectNoGuard ==
    /\ pc = "py_collect"
    /\ UNCHANGED entry2
    /\ UNCHANGED forms
    /\ matching2' = collectMatchingFiles(tree, homeDirectory, extensions)
    /\ calls' = Append(calls, "collect2")
    /\ pc' = "py_open"
    /\ UNCHANGED <<platform, tree, importable, externalDrive, matching1, written, via,
                   tmpFile, installRet, tier1, tier2, outcome, archive, exit7z>>

\* py7zrMethod: collect the files again; return False when there are none
Py7zrCollect ==
    /\ pc = "py_collect"
    /\ UNCHANGED entry2
    /\ UNCHANGED forms
    /\ matching2' = collectMatchingFiles(tree, homeDirectory, extensions)
    /\ calls' = Append(calls, "collect2")
    /\ IF matching2' = <<>>
       THEN pc' = "done" /\ tier2' = "false" /\ outcome' = "failed"
       ELSE pc' = "py_open" /\ UNCHANGED <<tier2, outcome>>
    /\ UNCHANGED <<platform, tree, importable, externalDrive, matching1, written, via,
                   tmpFile, installRet, tier1, archive, exit7z>>

\* the archive a writer has just opened in mode 'w'
Fresh == [exists |-> TRUE, by |-> "py7zr", complete |-> FALSE, entries |-> {}]

\* a py7zrMethod that opens the archive for appending
Py7zrOpenAppend ==
    /\ pc = "py_open"
    /\ UNCHANGED entry2
    /\ UNCHANGED forms
    /\ calls' = Append(calls, "SevenZipFile")
    /\ \E ok \in BOOLEAN :
        IF ok
        THEN /\ archive' = [archive EXCEPT !.exists = TRUE, !.by = "py7zr", !.complete = FALSE]
             /\ pc' = "py_write"
             /\ UNCHANGED <<tier2, outcome>>
        ELSE /\ archive' = archive
             /\ pc' = "done" /\ tier2' = "false" /\ outcome' = "failed"
    /\ written' = 0
    /\ UNCHANGED <<platform, tree, importable, externalDrive, matching1, matching2,
                   via, tmpFile, installRet, tier1, exit7z>>

\* py7zrMethod: py7zr.SevenZipFile(archivePath, mode='w'); an exception is
\* caught and gives False
Py7zrOpen ==
    /\ pc = "py_open"
    /\ UNCHANGED entry2
    /\ UNCHANGED forms
    /\ calls' = Append(calls, "SevenZipFile")
    /\ \E ok \in BOOLEAN :
        IF ok
        THEN /\ archive' = Fresh
             /\ pc' = "py_write"
             /\ UNCHANGED <<tier2, outcome>>
        ELSE /\ archive' \in {archive, Fresh}
             /\ pc' = "done" /\ tier2' = "false" /\ outcome' = "failed"
    /\ written' = 0
    /\ UNCHANGED <<platform, tree, importable, externalDrive, matching1, matching2,
                   via, tmpFile, installRet, tier1, exit7z>>

\* an entry name that drops the directories
arcnameFlat(candidate) == <<candidate[1][Len(candidate[1])]>>

\* the name of a candidate's entry: arcname=relFilePath
arcname(candidate) == candidate[2]

\* a py7zrMethod that deletes the archive when a write fails
Py7zrWriteCleansUp ==
    /\ pc = "py_write"
    /\ UNCHANGED entry2
    /\ UNCHANGED forms
    /\ written < Len(matching2)
    /\ calls' = Append(calls, "write")
    /\ \E ok \in BOOLEAN :
        IF ok
        THEN /\ archive' = [archive EXCEPT
                               !.entries = @ \cup {arcname(matching2[written + 1])}]
             /\ written' = written + 1
             /\ UNCHANGED <<pc, tier2, outcome>>
        ELSE /\ pc' = "done" /\ tier2' = "false" /\ outcome' = "failed"
             /\ archive' = NoFile
             /\ UNCHANGED written
    /\ UNCHANGED <<platform, tree, importable, externalDrive, matching1, matching2,
                   via, tmpFile, installRet, tier1, exit7z>>

\* py7zrMethod: archive.write(absFilePath, arcname=relFilePath) for the next
\* candidate; an exception is caught and gives False, the archive left as it is
Py7zrWrite ==
    /\ pc = "py_write"
    /\ UNCHANGED entry2
    /\ UNCHANGED forms
    /\ written < Len(matching2)
    /\ calls' = Append(calls, "write")
    /\ \E ok \in BOOLEAN :
        IF ok
        THEN /\ archive' = [archive EXCEPT
                               !.entries = @ \cup {arcname(matching2[written + 1])}]
             /\ written' = written + 1
             /\ UNCHANGED <<pc, tier2, outcome>>
        ELSE /\ pc' = "done" /\ tier2' = "false" /\ outcome' = "failed"
             /\ UNCHANGED <<archive, written>>
    /\ UNCHANGED <<platform, tree, importable, externalDrive, matching1, matching2,
                   via, tmpFile, installRet, tier1, exit7z>>

\* py7zrMethod: leaving the with block closes the archive; return True, or
\* False when closing raises
Py7zrClose ==
    /\ pc = "py_write"
    /\ UNCHANGED entry2
    /\ UNCHANGED forms
    /\ written = Len(matching2)
    /\ calls' = Append(calls, "close")
    /\ \E ok \in BOOLEAN :
        IF ok
        THEN /\ archive' = [archive EXCEPT !.complete = TRUE]
             /\ tier2' = "true" /\ outcome' = "tier2"
        ELSE /\ archive' = archive
             /\ tier2' = "false" /\ outcome' = "failed"
    /\ pc' = "done"
    /\ UNCHANGED <<platform, tree, importable, externalDrive, matching1, matching2,
                   written, via, tmpFile, installRet, tier1, exit7z>>

----------------------------------------------------------------------------
(* One run of main *)

Next ==
    \/ FindDrive
    \/ CliCollect
    \/ CliRun
    \/ Py7zrImport
    \/ PipCheck
    \/ PipForm1
    \/ PipForm2
    \/ Ensurepip
    \/ MkTemp
    \/ Download
    \/ RunGetPip
    \/ Reimport
    \/ Py7zrCollect
    \/ Py7zrOpen
    \/ Py7zrWrite
    \/ Py7zrClose

Spec == Init /\ [][Next]_vars

----------------------------------------------------------------------------
(* Collection on its own: FileCollector applied to one source root *)

capital(e) == [i \in 1..Len(e) |-> IF i = 2 THEN upperChar(e[i]) ELSE e[i]]
upper(e) == [i \in 1..Len(e) |-> upperChar(e[i])]

ProbeSuffixes ==
    extensions \cup { <<>>, <<".">>, <<".","b","a","k">>,
                      <<".","u","n","l","i","s","t","e","d">> }
ProbeStems == { <<>>, <<"x">> }
NestedNames ==
    { <<"x",".","p","d","f",".","b","a","k">>, <<"x",".","t","a","r",".","p","d","f">>,
      <<"x",".","p","d","f",".">>, <<"a",".",".","T","x","t">>, <<".","t","x","t">> }
ProbeNames ==
    UNION { {st \o e, st \o upper(e), st \o capital(e)} :
                st \in ProbeStems, e \in ProbeSuffixes } \ { <<>>, <<".">> }
ProbePool == { File(<<>>, n) : n \in ProbeNames }
NestedPool == { File(<<docs>>, n) : n \in NestedNames }

\* the trees collection is applied to: at most one file directly under the
\* source root, any of the probe names, next to a few files one level down and
\* any of the symlinks
LinkPool ==
    { FileLink(<<>>, <<"l","i","n","k",".","t","x","t">>),
      DirLink(<<>>, <<"l","n","k">>) }
ProbeTrees ==
    { p \cup b \cup l : p \in SubsetsUpTo(ProbePool, 1),
                        b \in SubsetsUpTo(NestedPool, MaxNested),
                        l \in SUBSET LinkPool }

InitCollect ==
    /\ pc = "collect"
    /\ platform = Linux(<<NoRoot, NoRoot, NoRoot>>)
    /\ tree \in ProbeTrees
    /\ importable = FALSE
    /\ externalDrive = None
    /\ matching1 = <<>>
    /\ matching2 = <<>>
    /\ written = 0
    /\ via = "none"
    /\ tmpFile = "none"
    /\ installRet = "unset"
    /\ tier1 = "notcalled"
    /\ tier2 = "notcalled"
    /\ outcome = "running"
    /\ archive = NoFile
    /\ exit7z = "none"
    /\ entry2 = NotEntered
    /\ forms = <<>>
    /\ calls = <<>>

\* list(collectMatchingFiles(source, extensions))
Collect ==
    /\ pc = "collect"
    /\ UNCHANGED entry2
    /\ UNCHANGED forms
    /\ matching1' = collectMatchingFiles(tree, homeDirectory, extensions)
    /\ calls' = Append(calls, "collect1")
    /\ pc' = "collected"
    /\ UNCHANGED <<platform, tree, importable, externalDrive, matching2, written, via,
                   tmpFile, installRet, tier1, tier2, outcome, archive, exit7z>>

NextCollect == Collect

SpecCollect == InitCollect /\ [][NextCollect]_vars

----------------------------------------------------------------------------
(* Properties *)

InstallerPcs == {"pip_check", "pip_form1", "pip_form2", "ensurepip",
                 "getpip_tmp", "getpip_download", "getpip_run"}

\* two characters that are the same letter, whatever their case
SameLetter(c, d) ==
    c = d \/ \E i \in DOMAIN UpperChars : {c, d} = {UpperChars[i], LowerChars[i]}

\* text e closes the name, letter case ignored
EndsWith(name, e) ==
    /\ Len(name) >= Len(e)
    /\ \A i \in 1..Len(e) : SameLetter(name[Len(name) - Len(e) + i], e[i])

\* the name is a non-empty stem followed by an allowlisted extension
Listed(name) == \E e \in extensions : EndsWith(name, e) /\ Len(name) > Len(e)

NoMatchUnderHome == \A f \in tree : ~Listed(f.name)

\* C1: when findDrive returns no volume, main stops at once: no tier, no
\* collection, no external tool, no installer and no archive writer is invoked
\* and no archive file exists
C1_NoVolumeHalts ==
    (Called("findDrive") /\ externalDrive = None) =>
        /\ pc = "done"
        /\ outcome = "aborted"
        /\ calls = <<"findDrive">>
        /\ tier1 = "notcalled" /\ tier2 = "notcalled"
        /\ matching1 = <<>> /\ matching2 = <<>>
        /\ exit7z = "none" /\ installRet = "unset" /\ tmpFile = "none"
        /\ ~archive.exists

C1_Witness ==
    /\ outcome = "aborted"
    /\ platform.system = "Linux"
    /\ platform.roots[1].exists

\* C2: once tier 1 has returned true, the run is over with success reported and
\* nothing of tier 2 (import, installer, archive writer) has been or is invoked
C2_Tier1SuccessSkipsTier2 ==
    tier1 = "true" =>
        /\ pc = "done"
        /\ outcome = "tier1"
        /\ tier2 = "notcalled"
        /\ \A e \in {"py7zrMethod", "import", "installPy7zr", "pip --version",
                     "reimport", "collect2", "SevenZipFile", "write", "close"} :
               ~Called(e)
        /\ installRet = "unset"

C2_Witness == tier1 = "true" /\ exit7z = "ok" /\ archive.by = "7z"

\* C3: with a volume found, when no file matches, 7z is absent or 7z exits
\* non-zero, tier 1 returns false (no fault leaves it) and main then invokes
\* tier 2 exactly once
C3_Tier1FailureFallsBack ==
    (externalDrive # None
       /\ ((Called("collect1") /\ matching1 = <<>>) \/ exit7z \in {"absent", "nonzero"})) =>
        /\ tier1 = "false"
        /\ IF pc = "py_import"
           THEN Count("py7zrMethod") = 0 /\ ENABLED Py7zrImport
           ELSE Count("py7zrMethod") = 1

C3_Witness == exit7z = "absent" /\ tier1 = "false" /\ Count("py7zrMethod") = 1 /\ pc = "done"

\* C4: a tier whose collection is empty returns false without running 7z
\* (tier 1) or opening or writing the archive (tier 2)
C4_EmptyCollectionFails ==
    /\ (Called("collect1") /\ matching1 = <<>>) => (tier1 = "false" /\ ~Called("7z"))
    /\ (Called("collect2") /\ matching2 = <<>>) =>
           /\ tier2 = "false"
           /\ ~Called("SevenZipFile") /\ ~Called("write") /\ ~Called("close")

C4_Witness ==
    /\ Called("collect1") /\ Called("collect2")
    /\ matching1 = <<>> /\ matching2 = <<>>
    /\ tree # {}

\* C5: in a run with a volume and no matching file under the source root, both
\* tiers return false, main ends with overall failure and nothing has been
\* created at the archive path
C5_NoMatchEndsInFailure ==
    (pc = "done" /\ externalDrive # None /\ NoMatchUnderHome) =>
        /\ tier1 = "false"
        /\ tier2 = "false"
        /\ outcome = "failed"
        /\ archive \in {NoFile, OldArchive}

\* C6: installPy7zr is invoked exactly when tier 2 is entered with the library
\* not importable, once, and nowhere else; an archive is opened or written only
\* after that invocation
C6_InstallerOnceBeforeWrite ==
    /\ Count("installPy7zr") = 0
    /\ [][ /\ (pc = "py_import" =>
                 Count("installPy7zr")' = (IF importable THEN 0 ELSE 1))
           /\ (pc # "py_import" => Count("installPy7zr")' = Count("installPy7zr"))
           /\ (Count("installPy7zr")' = 1 =>
                 Before("installPy7zr", "SevenZipFile")' /\ Before("installPy7zr", "write")')
         ]_vars

C6_Witness ==
    /\ Count("installPy7zr") = 1
    /\ Called("SevenZipFile") /\ Called("write")
    /\ tier2 = "true"

\* C7: once installPy7zr has returned, the get-pip temporary file is not on
\* disk: it was removed if it had been created, and never existed otherwise
C7_TempFileRemoved ==
    /\ installRet # "unset" => tmpFile = (IF Called("mktemp") /\ Called("urlretrieve")
                                          THEN "removed" ELSE "none")
    /\ pc \notin InstallerPcs => tmpFile # "exists"

C7_Witness == installRet = "true" /\ via = "getpip" /\ tmpFile = "removed"

\* C8: tier 2 never lets a fault out: it ends true or false, and when the
\* installer returned true with the library still not importable it ends false
\* and main reports overall failure
C8_Tier2NeverRaises ==
    /\ tier2 # "raised"
    /\ (pc = "done" /\ installRet = "true" /\ ~importable) =>
           (tier2 = "false" /\ outcome = "failed")

\* C9: when tier 2 returns true the archive holds one entry for each file under
\* the source root with an allowlisted suffix, named by its path relative to the
\* source root, and nothing else
C9_ArchiveHoldsCandidates ==
    tier2 = "true" =>
        /\ archive.exists /\ archive.complete /\ archive.by = "py7zr"
        /\ archive.entries = {Append(f.dir, f.name) : f \in {g \in tree : Listed(g.name)}}
        /\ archive.entries = relPaths(matching2)
        /\ Cardinality(archive.entries) = Len(matching2)
        /\ written = Len(matching2)

C9_Witness ==
    /\ tier2 = "true"
    /\ tree = { File(<<>>, <<"r","e","p","o","r","t",".","p","d","f">>),
                File(<<docs, old>>, <<"n","o","t","e","s",".","t","x","t">>),
                File(<<>>, <<"i","m","a","g","e",".","p","n","g",".","b","a","k">>) }
    /\ archive.entries = { << <<"r","e","p","o","r","t",".","p","d","f">> >>,
                           <<docs, old, <<"n","o","t","e","s",".","t","x","t">> >> }

Yielded(f) ==
    \E i \in 1..Len(matching1) :
        matching1[i] = <<homeDirectory \o Append(f.dir, f.name), Append(f.dir, f.name)>>

\* the text of the name from its last dot on is an allowlisted extension,
\* letter case ignored
FinalSuffixListed(name) == \E e \in extensions : EndsWith(name, e)

\* C10 as stated: a file under the source root is yielded exactly when the
\* text from the last dot of its name, lower-cased, is in the allowlist
C10_Original ==
    pc = "collected" => \A f \in tree : Yielded(f) <=> FinalSuffixListed(f.name)

\* C10: a file under the source root is yielded exactly when its name is a
\* non-empty stem followed by an allowlisted extension in any letter case; a
\* name that is nothing but the extension (".pdf") has no suffix and is left out
C10_SuffixFilter ==
    pc = "collected" =>
        /\ \A f \in tree : Yielded(f) <=> Listed(f.name)
        /\ Len(matching1) = Cardinality({f \in tree : Listed(f.name)})

C10_Witness ==
    /\ pc = "collected"
    /\ \E f \in tree : f.name = <<"x",".","P","D","F">> /\ Yielded(f)
    /\ \E f \in tree : f.name = <<".","t","x","t">> /\ ~Yielded(f)


\* os.path.join(root, rel) for a relative path of any number of components
joinPath(root, rel) == root \o rel

Rejoins(matchingFiles) ==
    \A i \in 1..Len(matchingFiles) :
        joinPath(homeDirectory, matchingFiles[i][2]) = matchingFiles[i][1]

\* C11: for every pair (absolutePath, relativePath) a collection yields, the
\* source root joined with relativePath is absolutePath, at every depth
C11_RelativeRejoins == Rejoins(matching1) /\ Rejoins(matching2)

C11_Witness ==
    /\ \E i \in 1..Len(matching2) : Len(matching2[i][2]) = 1
    /\ \E i \in 1..Len(matching2) : Len(matching2[i][2]) = 3
    /\ \E i \in 1..Len(matching1) : Len(matching1[i][2]) = 2


\* the file a candidate names lies outside the source root: the candidate is
\* a symlink to such a file or is reached through a symlink to a directory
Escapes(candidate) ==
    \E g \in tree :
        \/ g.link = "file" /\ candidate[1] = homeDirectory \o Append(g.dir, g.name)
        \/ g.link = "dir" /\ IsPrefix(homeDirectory \o Append(g.dir, g.name), candidate[1])
           /\ candidate[1] # homeDirectory \o Append(g.dir, g.name)

\* C12: with symlinks to directories and to files outside the source root in
\* the tree, no candidate a collection yields has its content or its location
\* outside the root
C12_NoEscape ==
    pc = "collected" => \A i \in 1..Len(matching1) : ~Escapes(matching1[i])


----------------------------------------------------------------------------
(* Location on its own: findDrive applied to one state of the mount roots *)

EntryNames == <<vol1, vol2, <<"v","o","l","3">>, <<"v","o","l","4">>, <<"v","o","l","5">>>>

\* every listing of at most MaxEntries children, each a mount point or not
Listings ==
    UNION { { [k \in 1..n |-> Entry(EntryNames[k], m[k])] : m \in [1..n -> BOOLEAN] } :
                n \in 0..MaxEntries }
RootStates == {NoRoot} \cup { Root(es) : es \in Listings }
LocatePlatforms == { Linux(roots) : roots \in [1..Len(mountPoints) -> RootStates] }

InitLocate ==
    /\ pc = "locate"
    /\ platform \in LocatePlatforms
    /\ tree = {}
    /\ importable = FALSE
    /\ externalDrive = None
    /\ matching1 = <<>>
    /\ matching2 = <<>>
    /\ written = 0
    /\ via = "none"
    /\ tmpFile = "none"
    /\ installRet = "unset"
    /\ tier1 = "notcalled"
    /\ tier2 = "notcalled"
    /\ outcome = "running"
    /\ archive = NoFile
    /\ exit7z = "none"
    /\ entry2 = NotEntered
    /\ forms = <<>>
    /\ calls = <<>>

\* findDrive(username)
Locate ==
    /\ pc = "locate"
    /\ externalDrive' = findDrive(platform)
    /\ calls' = Append(calls, "findDrive")
    /\ pc' = "located"
    /\ UNCHANGED <<platform, tree, importable, matching1, matching2, written, via,
                   tmpFile, installRet, tier1, tier2, outcome, archive, exit7z,
                   entry2, forms>>

NextLocate == Locate

SpecLocate == InitLocate /\ [][NextLocate]_vars

\* root r exists and lists a child that is a mount point
HasMount(r) ==
    platform.roots[r].exists
    /\ \E k \in 1..Len(platform.roots[r].entries) : platform.roots[r].entries[k].ismount

\* C13: on a mount-point-tree system findDrive returns None exactly when no
\* existing candidate root has a child that is a mount point; otherwise it
\* returns one path, a mount-point child of the earliest root that has one
C13_FirstMountPoint ==
    (pc = "located" /\ platform.system = "Linux") =>
        IF \A r \in 1..Len(mountPoints) : ~HasMount(r)
        THEN externalDrive = None
        ELSE LET r0 == CHOOSE r \in 1..Len(mountPoints) :
                           HasMount(r) /\ \A q \in 1..(r - 1) : ~HasMount(q)
             IN  /\ externalDrive # None
                 /\ \E k \in 1..Len(platform.roots[r0].entries) :
                       /\ platform.roots[r0].entries[k].ismount
                       /\ externalDrive = mountPoints[r0] \o <<platform.roots[r0].entries[k].name>>

C13_Witness ==
    /\ pc = "located"
    /\ platform.roots[1].exists /\ ~HasMount(1) /\ Len(platform.roots[1].entries) > 0
    /\ HasMount(2) /\ ~platform.roots[2].entries[1].ismount
    /\ HasMount(3)
    /\ externalDrive = mountPoints[2] \o <<vol2>>


\* C14: when tier 1 failed and a file (partial, or there before the run) lay at
\* the archive path as tier 2 was entered, an archive tier 2 has written and
\* closed holds exactly tier 2's candidates, nothing of the earlier file, and
\* tier 2 returns true
C14_LeftoverDoesNotBlock ==
    (tier1 = "false" /\ entry2.entered /\ entry2.archive.exists
       /\ archive.by = "py7zr" /\ archive.complete) =>
        /\ tier2 = "true"
        /\ archive.exists
        /\ archive.entries = relPaths(matching2)
        /\ archive.entries = {Append(f.dir, f.name) : f \in {g \in tree : Listed(g.name)}}

C14_Witness ==
    /\ tier2 = "true"
    /\ exit7z = "nonzero"
    /\ entry2.archive.by = "7z" /\ ~entry2.archive.complete
    /\ archive.entries # {}

\* C15: an exception while tier 2 opens the archive, writes an entry or closes
\* it is caught: tier 2 returns false, the archive is left as written so far,
\* main ends with overall failure and nothing is run a second time
C15_WriteFailureIsFinal ==
    (pc = "done" /\ Called("SevenZipFile") /\ tier2 # "true") =>
        /\ tier2 = "false"
        /\ outcome = "failed"
        /\ \A e \in {"findDrive", "cliMethod", "py7zrMethod", "collect2", "SevenZipFile"} :
               Count(e) = 1
        /\ Count("write") <= Len(matching2)
        /\ Called("write") =>
               archive = [Fresh EXCEPT !.entries = {matching2[i][2] : i \in 1..written}]
        /\ ~Called("write") => archive \in {entry2.archive, Fresh}

C15_Witness ==
    /\ pc = "done" /\ tier2 = "false"
    /\ Count("write") = 2 /\ written = 1
    /\ Cardinality(archive.entries) = 1


BootstrapCalls == {"ensurepip", "mktemp", "urlretrieve", "get-pip"}
AllFailed == \A i \in 1..Len(forms) : forms[i] # "ok"

\* C16: when the pip check succeeded and every install command failed,
\* installPy7zr returns false and neither ensurepip nor the download has run
C16_PresentPipNoBootstrap ==
    /\ via = "pip" => \A e \in BootstrapCalls : ~Called(e)
    /\ (via = "pip" /\ Len(forms) = 2 /\ AllFailed) =>
           (installRet = "false" /\ tier2 = "false" /\ pc = "done")

C16_Witness ==
    via = "pip" /\ forms = <<"nonzero", "raised">> /\ installRet = "false"

\* C17: the get-pip script is fetched only after the pip check and then
\* ensurepip have both failed, and before any install command; never when pip
\* was found or ensurepip succeeded
C17_DownloadIsLastResort ==
    /\ via \in {"pip", "ensurepip"} => \A e \in {"mktemp", "urlretrieve", "get-pip"} : ~Called(e)
    /\ (Called("mktemp") \/ Called("urlretrieve")) =>
           /\ Before("pip --version", "ensurepip") /\ Called("ensurepip")
           /\ Before("ensurepip", "mktemp")
           /\ Before("mktemp", "urlretrieve")
           /\ Before("urlretrieve", "pip install 1")
           /\ via \in {"none", "getpip"}

C17_Witness ==
    /\ Called("urlretrieve") /\ via = "getpip"
    /\ forms = <<"ok">> /\ installRet = "true"

\* C18: tryPipInstall runs the module form, then the executable form only if
\* the first did not succeed; it returns true exactly when a form succeeded,
\* and a form that cannot be started counts as a failed attempt
C18_InstallFormsInOrder ==
    /\ Count("pip install 1") <= 1 /\ Count("pip install 2") <= 1
    /\ Len(forms) = Count("pip install 1") + Count("pip install 2")
    /\ Before("pip install 1", "pip install 2")
    /\ Len(forms) = 2 => forms[1] # "ok"
    /\ (Len(forms) = 1 /\ AllFailed) => (pc = "pip_form2" /\ installRet = "unset")
    /\ (forms # <<>> /\ pc # "pip_form2") =>
           installRet = (IF AllFailed THEN "false" ELSE "true")

C18_Witness == forms = <<"raised", "ok">> /\ installRet = "true"

\* C19: provided the 7z process could be started, a run ends in exactly one of
\* aborted, success by tier 1, success by tier 2 or overall failure, with
\* findDrive called once, each tier at most once and tier 2 only after tier 1
\* returned false
C19_FourOutcomes ==
    /\ Count("findDrive") <= 1 /\ Count("cliMethod") <= 1 /\ Count("py7zrMethod") <= 1
    /\ Called("py7zrMethod") => tier1 = "false"
    /\ (pc = "done" /\ exit7z # "oserror") =>
           /\ outcome \in {"aborted", "tier1", "tier2", "failed"}
           /\ Count("findDrive") = 1

\* C20: tier 2 looks for the library, and installs it when it is absent, before
\* it collects; with no matching file and the library absent the installer has
\* still run by the time tier 2 is over
C20_InstallBeforeCollect ==
    /\ Called("collect2") =>
           /\ Before("import", "collect2")
           /\ ~entry2.importable =>
                  Before("installPy7zr", "collect2") /\ Before("pip --version", "collect2")
    /\ (pc = "done" /\ entry2.entered /\ ~entry2.importable /\ NoMatchUnderHome) =>
           (Called("installPy7zr") /\ Called("pip --version"))

C20_Witness ==
    /\ pc = "done" /\ tier2 = "false"
    /\ ~entry2.importable /\ NoMatchUnderHome
    /\ Called("urlretrieve") /\ Called("collect2")

====
